---- MODULE Spec2Model ----
(***************************************************************************)
(* Model of internal/controllers/signer.go of krisek/cfmtls-issuer: the    *)
(* Issuer orchestrator (getIssuerDetails, getSecretData, Check, Sign) and  *)
(* the CloudflareSigner, driven by an external reconciliation framework.   *)
(*                                                                         *)
(* A call of Check or Sign is a sequence of steps separated at the points  *)
(* where the code blocks on a collaborator:                                *)
(*   Invoke        getIssuerDetails                         (lines 185/195) *)
(*   ClientGet     o.client.Get + o.HealthCheckerBuilder    (lines 166-173) *)
(*   CheckerCheck  checker.Check() and, in Sign, everything up to          *)
(*                 client.Do(req)                (lines 175-179, 205-136)  *)
(*   ClientDo      the return of client.Do(req), the decoding of the       *)
(*                 response and the PEM parse    (lines 136-156, 218-227)  *)
(* The environment (the secret store, the health of the CA, the            *)
(* reachability of the signing backend) changes between those steps.       *)
(***************************************************************************)
EXTENDS Integers, Sequences, FiniteSets, TLC

\* ------------------------------------------------------------------ bounds
\* longest certificate string (in PEM blocks) the backend answers with
MaxChain == 2

\* --------------------------------------------------------------- constants
StatusOK == 200

\* the workers of the external driver that invoke Check and Sign
Workers == {"w1", "w2"}

\* issuer object variants handed in by the driver; "Other" is any
\* issuerapi.Issuer implementation that is neither of the two registered
Variants == {"CFMTLSIssuer", "CFMTLSClusterIssuer", "Other"}

\* namespaces of the cluster; "" is the namespace of a cluster-scoped object
ObjectNamespace == "ns1"
ClusterResourceNamespaces == {"cns"}
Namespaces == {ObjectNamespace} \cup ClusterResourceNamespaces

\* issuerSpec.AuthSecretName
AuthSecretName == "auth"

\* values of the two keys read from secret.Data; "" is absent or empty
\* (string(secretData[k]) is "" for a missing key and for a nil map)
APIKeys == {"", "k1", "k2"}
ZoneIDs == {"", "z1", "z2"}

\* the Secret object in a namespace: absent, or its Data
NoSecret == [present |-> FALSE, apiKey |-> "", zoneID |-> ""]
SecretData(k, z) == [present |-> TRUE, apiKey |-> k, zoneID |-> z]
SecretValues ==
    { NoSecret,
      SecretData("", ""),
      SecretData("", "z1"),
      SecretData("k1", ""),
      SecretData("k1", "z1"),
      SecretData("k2", "z2") }

\* the Issuer's injected builder fields: a function value or nil
BuilderValues == {"set", "unset"}

\* what cr.GetRequest() returns: an error, a template with DNS names, or a
\* template whose DNSNames is empty
RequestValues == {"err", "dns", "nodns"}

\* HTTP statuses the backend answers with
Statuses == {StatusOK, 401, 500}

\* PEM blocks of a certificate string: two leaves issued by "int", the
\* intermediate issued by "root", the self-signed root, and a CERTIFICATE
\* block whose bytes are not a certificate
Certs == {"leaf", "leaf2", "int", "root"}
PEMBlocks == Certs \cup {"bad"}

IssuerOf(c) ==
    CASE c = "leaf"  -> "int"
      [] c = "leaf2" -> "int"
      [] c = "int"   -> "root"
      [] c = "root"  -> "root"

isSelfSignedCertificate(c) == IssuerOf(c) = c

BoundedSeq(S, n) == UNION { [1..k -> S] : k \in 0..n }
PEMStrings == BoundedSeq(PEMBlocks, MaxChain)

\* response bodies of a 200 answer: not JSON, JSON without a "certificate"
\* field, JSON whose "certificate" is not a string, or a certificate string
BodyShapes == {"notjson", "nofield", "nonstring", "string"}

\* ------------------------------------------------------------------ errors
\* An error value: its message, the sentinel errors it wraps with %w
\* (what errors.Is finds), the IssuerError / PermanentError envelopes found
\* by errors.As, and the values its message names.
Sentinels ==
    { "errGetAuthSecret", "errHealthCheckerBuilder", "errHealthCheckerCheck",
      "errSignerBuilder", "errSignerSign" }

Error(msg, wraps, ns, name, status) ==
    [ msg |-> msg, wraps |-> wraps, issuerError |-> FALSE,
      permanent |-> FALSE, ns |-> ns, name |-> name, status |-> status ]

nil == Error("nil", {}, "", "", 0)

PermanentError(e) == [e EXCEPT !.permanent = TRUE]
IssuerError(e) == [e EXCEPT !.issuerError = TRUE]

\* signer.PEMBundle
PEMBundle(chain, ca) == [ChainPEM |-> chain, CAPEM |-> ca]
EmptyBundle == PEMBundle(<<>>, <<>>)

\* ------------------------------------------------------- getIssuerDetails
\* the issuer object the driver hands in: its dynamic type and GetNamespace()
IssuerObject(variant) ==
    [ variant |-> variant,
      namespace |-> IF variant = "CFMTLSClusterIssuer" THEN "" ELSE ObjectNamespace ]

getIssuerDetails_NoDefault(o, issuerObject) ==
    CASE issuerObject.variant = "CFMTLSIssuer" ->
           [spec |-> TRUE, namespace |-> issuerObject.namespace, err |-> nil]
      [] issuerObject.variant = "CFMTLSClusterIssuer" ->
           [spec |-> TRUE, namespace |-> o.ClusterResourceNamespace, err |-> nil]
      [] OTHER ->
           [spec |-> TRUE, namespace |-> issuerObject.namespace, err |-> nil]

getIssuerDetails_Retryable(o, issuerObject) ==
    CASE issuerObject.variant = "CFMTLSIssuer" ->
           [spec |-> TRUE, namespace |-> issuerObject.namespace, err |-> nil]
      [] issuerObject.variant = "CFMTLSClusterIssuer" ->
           [spec |-> TRUE, namespace |-> o.ClusterResourceNamespace, err |-> nil]
      [] OTHER ->
           [ spec |-> FALSE, namespace |-> "",
             err |-> Error("unexpected issuer type", {}, "", "", 0) ]

getIssuerDetails_AlwaysClusterNamespace(o, issuerObject) ==
    CASE issuerObject.variant = "CFMTLSIssuer" ->
           [spec |-> TRUE, namespace |-> o.ClusterResourceNamespace, err |-> nil]
      [] issuerObject.variant = "CFMTLSClusterIssuer" ->
           [spec |-> TRUE, namespace |-> o.ClusterResourceNamespace, err |-> nil]
      [] OTHER ->
           [ spec |-> FALSE, namespace |-> "",
             err |-> PermanentError(Error("unexpected issuer type", {}, "", "", 0)) ]

getIssuerDetails(o, issuerObject) ==
    CASE issuerObject.variant = "CFMTLSIssuer" ->
           [spec |-> TRUE, namespace |-> issuerObject.namespace, err |-> nil]
      [] issuerObject.variant = "CFMTLSClusterIssuer" ->
           [spec |-> TRUE, namespace |-> o.ClusterResourceNamespace, err |-> nil]
      [] OTHER ->
           [ spec |-> FALSE, namespace |-> "",
             err |-> PermanentError(Error("unexpected issuer type", {}, "", "", 0)) ]

\* ------------------------------------------- pki.ParseSingleCertificateChainPEM
\* DecodeX509CertificateSetBytes: every CERTIFICATE block must parse, and
\* there must be at least one
DecodeX509CertificateSetBytes(pem) ==
    IF \E i \in 1..Len(pem) : pem[i] = "bad"
    THEN [ok |-> FALSE, certs |-> <<>>, msg |-> "error parsing TLS certificate"]
    ELSE IF Len(pem) = 0
    THEN [ok |-> FALSE, certs |-> <<>>, msg |-> "error decoding certificate PEM block"]
    ELSE [ok |-> TRUE, certs |-> pem, msg |-> "nil"]

\* the chain that starts at c and follows issuers inside the set S
RECURSIVE Walk(_, _)
Walk(c, S) ==
    IF IssuerOf(c) \in S \ {c}
    THEN <<c>> \o Walk(IssuerOf(c), S \ {c})
    ELSE <<c>>

Range(s) == { s[i] : i \in 1..Len(s) }

\* chainNode.toBundleAndCA: the root is the CA; a self-signed root of a
\* longer chain is left out of the chain
toBundleAndCA(chain) ==
    LET k == Len(chain) IN
    IF k = 1 THEN PEMBundle(chain, <<chain[1]>>)
    ELSE IF isSelfSignedCertificate(chain[k])
    THEN PEMBundle(SubSeq(chain, 1, k - 1), <<chain[k]>>)
    ELSE PEMBundle(chain, <<chain[k]>>)

\* ParseSingleCertificateChain: duplicates are dropped and the certificates
\* must link into one chain, leaf first
ParseSingleCertificateChain(certs) ==
    LET S == Range(certs)
        heads == { c \in S : Range(Walk(c, S)) = S }
    IN  IF heads = {}
        THEN [ ok |-> FALSE, bundle |-> EmptyBundle,
               msg |-> "certificate chain is malformed or broken" ]
        ELSE [ ok |-> TRUE, msg |-> "nil",
               bundle |-> toBundleAndCA(Walk(CHOOSE c \in heads : TRUE, S)) ]

ParseSingleCertificateChainPEM_AcceptEmpty(pem) ==
    LET d == DecodeX509CertificateSetBytes(pem) IN
    IF Len(pem) = 0 THEN [ok |-> TRUE, bundle |-> EmptyBundle, msg |-> "nil"]
    ELSE IF ~d.ok THEN [ok |-> FALSE, bundle |-> EmptyBundle, msg |-> d.msg]
    ELSE ParseSingleCertificateChain(d.certs)

ParseSingleCertificateChainPEM(pem) ==
    LET d == DecodeX509CertificateSetBytes(pem) IN
    IF ~d.ok THEN [ok |-> FALSE, bundle |-> EmptyBundle, msg |-> d.msg]
    ELSE ParseSingleCertificateChain(d.certs)

\* ------------------------------------------------------- CloudflareSigner
\* what client.Do(req) hands back: a transport failure (the 10 s timeout
\* included), or a response with a status and a body
TransportFailure == [failed |-> TRUE, status |-> 0, shape |-> "notjson", cert |-> <<>>]
Response(status, shape, cert) ==
    [failed |-> FALSE, status |-> status, shape |-> shape, cert |-> cert]
Responses ==
    { Response(st, sh, <<>>) : st \in Statuses, sh \in BodyShapes \ {"string"} }
    \cup { Response(st, "string", c) : st \in Statuses, c \in PEMStrings }

\* CloudflareSigner.Sign from the return of client.Do on
CloudflareSignerSign_UncheckedAssertion(c, resp) ==
    IF resp.failed
    THEN [signed |-> <<>>, err |-> Error("failed to send request to Cloudflare", {}, "", "", 0)]
    ELSE IF resp.status # StatusOK
    THEN [ signed |-> <<>>,
           err |-> Error("Cloudflare API responded with status", {}, "", "", resp.status) ]
    ELSE IF resp.shape = "notjson"
    THEN [signed |-> <<>>, err |-> Error("failed to parse Cloudflare response", {}, "", "", 0)]
    ELSE [signed |-> resp.cert, err |-> nil]

CloudflareSignerSign(c, resp) ==
    IF resp.failed
    THEN [signed |-> <<>>, err |-> Error("failed to send request to Cloudflare", {}, "", "", 0)]
    ELSE IF resp.status # StatusOK
    THEN [ signed |-> <<>>,
           err |-> Error("Cloudflare API responded with status", {}, "", "", resp.status) ]
    ELSE IF resp.shape = "notjson"
    THEN [signed |-> <<>>, err |-> Error("failed to parse Cloudflare response", {}, "", "", 0)]
    ELSE IF resp.shape # "string"
    THEN [ signed |-> <<>>,
           err |-> Error("invalid certificate response from Cloudflare API", {}, "", "", 0) ]
    ELSE [signed |-> resp.cert, err |-> nil]

\* ------------------------------------------------------------------ state
VARIABLES
    issuer,     \* the Issuer value the driver's Sign and Check are bound to
    secrets,    \* the secret store: the Secret named AuthSecretName per namespace
    healthy,    \* whether a health checker's Check() succeeds now
    reachable,  \* whether the signing backend answers now
    calls       \* per worker: the Check or Sign call it is in

vars == <<issuer, secrets, healthy, reachable, calls>>

NoSigner == [APIKey |-> "", ZoneID |-> ""]

\* A call: the operation and the issuer object's variant; where it is (pc);
\* the namespace getIssuerDetails resolved; the step during which its
\* context was cancelled; the Secret the Get returned; what checker.Check()
\* returned; what cr.GetRequest() returned; the CloudflareSigner built; the
\* PEM a returned bundle was parsed from; the error and bundle returned; and
\* the calls it made on its collaborators, in order (did).
IdleCall ==
    [ op |-> "none", variant |-> "none", pc |-> "idle", namespace |-> "",
      cancelledAt |-> "none", secretData |-> NoSecret, checked |-> "none",
      request |-> "none", signer |-> NoSigner, signed |-> <<>>, err |-> nil,
      bundle |-> EmptyBundle, did |-> <<>> ]

Init ==
    /\ issuer \in [ HealthCheckerBuilder : BuilderValues,
                    SignerBuilder : BuilderValues,
                    ClusterResourceNamespace : ClusterResourceNamespaces ]
    /\ secrets \in [Namespaces -> SecretValues]
    /\ healthy \in BOOLEAN
    /\ reachable \in BOOLEAN
    /\ calls = [w \in Workers |-> IdleCall]

\* a call returns: (bundle, err) to the driver
Returned(c, bundle, err) ==
    [c EXCEPT !.pc = "done", !.bundle = bundle, !.err = err]

\* a call aborts with a run-time panic
Panicked(c) == [c EXCEPT !.pc = "panic"]

\* how Check and Sign hand on an error of getIssuerDetails or getSecretData:
\* Check returns it as it is, Sign inside the IssuerError envelope
Propagate_NoEnvelope(op, err) == err

Propagate(op, err) == IF op = "Sign" THEN IssuerError(err) ELSE err

\* the driver calls Check and Sign for one issuer one at a time
MayInvoke(w) == \A v \in Workers \ {w} : calls[v].pc = "idle"

\* Check / Sign are entered: getIssuerDetails
Enter(w) ==
    /\ calls[w].pc = "idle"
    /\ \E op \in {"Check", "Sign"}, variant \in Variants :
         LET d == getIssuerDetails(issuer, IssuerObject(variant))
             c == [IdleCall EXCEPT !.op = op, !.variant = variant]
         IN  calls' = [calls EXCEPT ![w] =
                 IF d.err # nil
                 THEN Returned(c, EmptyBundle, Propagate(op, d.err))
                 ELSE [c EXCEPT !.pc = "get", !.namespace = d.namespace]]
    /\ UNCHANGED <<issuer, secrets, healthy, reachable>>

\* the driver enters a call while no other is in progress
Invoke(w) == MayInvoke(w) /\ Enter(w)

\* the driver enters a call whatever its other workers are doing
InvokeConcurrent(w) == Enter(w)

Did(c, what) == [c EXCEPT !.did = @ \o what]

\* ---------------------------------------------------------- getSecretData
\* getSecretData up to the built health checker: o.client.Get, then
\* o.HealthCheckerBuilder(issuerSpec, secret.Data).  getFailed: the Get
\* returned an error although the Secret exists (a cancelled context);
\* built: the injected builder accepted the secret data.
getSecretData_Misclassified(o, c, secret, getFailed, built) ==
    IF ~secret.present \/ getFailed
    THEN Returned(Did(c, <<"Get">>), EmptyBundle,
             Propagate(c.op, Error("failed to get Secret containing Issuer credentials",
                                   {"errGetAuthSecret"}, c.namespace, AuthSecretName, 0)))
    ELSE IF o.HealthCheckerBuilder = "unset"
    THEN Panicked([Did(c, <<"Get">>) EXCEPT !.secretData = secret])
    ELSE IF ~built
    THEN Returned([Did(c, <<"Get", "Build">>) EXCEPT !.secretData = secret], EmptyBundle,
             Propagate(c.op, Error("healthcheck failed",
                                   {"errHealthCheckerCheck"}, "", "", 0)))
    ELSE [Did(c, <<"Get", "Build">>) EXCEPT !.pc = "check", !.secretData = secret]

getSecretData_SharedSecret(o, c, secret, getFailed, built) ==
    LET held == { calls[v].secretData : v \in { x \in Workers : calls[x].pc \in {"check", "http"} } }
        used == IF held = {} THEN secret ELSE CHOOSE s \in held : TRUE
    IN  IF ~used.present \/ getFailed
        THEN Returned(Did(c, <<"Get">>), EmptyBundle,
                 Propagate(c.op, Error("failed to get Secret containing Issuer credentials",
                                       {"errGetAuthSecret"}, c.namespace, AuthSecretName, 0)))
        ELSE IF o.HealthCheckerBuilder = "unset"
        THEN Panicked([Did(c, <<"Get">>) EXCEPT !.secretData = used])
        ELSE IF ~built
        THEN Returned([Did(c, <<"Get", "Build">>) EXCEPT !.secretData = used], EmptyBundle,
                 Propagate(c.op, Error("failed to build the healthchecker",
                                       {"errHealthCheckerBuilder"}, "", "", 0)))
        ELSE [Did(c, <<"Get", "Build">>) EXCEPT !.pc = "check", !.secretData = used]

getSecretData(o, c, secret, getFailed, built) ==
    IF ~secret.present \/ getFailed
    THEN Returned(Did(c, <<"Get">>), EmptyBundle,
             Propagate(c.op, Error("failed to get Secret containing Issuer credentials",
                                   {"errGetAuthSecret"}, c.namespace, AuthSecretName, 0)))
    ELSE IF o.HealthCheckerBuilder = "unset"
    THEN Panicked([Did(c, <<"Get">>) EXCEPT !.secretData = secret])
    ELSE IF ~built
    THEN Returned([Did(c, <<"Get", "Build">>) EXCEPT !.secretData = secret], EmptyBundle,
             Propagate(c.op, Error("failed to build the healthchecker",
                                   {"errHealthCheckerBuilder"}, "", "", 0)))
    ELSE [Did(c, <<"Get", "Build">>) EXCEPT !.pc = "check", !.secretData = secret]

\* ------------------------------------------------------------------- Sign
\* the two keys Sign needs are both there
missingCredentials_KeyOnly(cfAPIKey, zoneID) == cfAPIKey = ""

missingCredentials(cfAPIKey, zoneID) == cfAPIKey = "" \/ zoneID = ""

\* Sign from the secret data on, up to client.Do(req) being sent: the two
\* keys, cr.GetRequest(), the CloudflareSigner and its request
\* (cert.DNSNames[0] of an empty DNSNames is an index out of range)
SignWithSecretData_RereadsZone(c, request) ==
    LET cfAPIKey == c.secretData.apiKey
        zoneID == secrets[c.namespace].zoneID
    IN  IF missingCredentials(cfAPIKey, zoneID)
        THEN Returned(c, EmptyBundle,
                 Error("missing Cloudflare API key or Zone ID in secret", {}, "", "", 0))
        ELSE IF request = "err"
        THEN Returned([Did(c, <<"GetRequest">>) EXCEPT !.request = request], EmptyBundle,
                 Error("GetRequest failed", {}, "", "", 0))
        ELSE IF request = "nodns"
        THEN Panicked([Did(c, <<"GetRequest", "Signer">>) EXCEPT
                           !.request = request,
                           !.signer = [APIKey |-> cfAPIKey, ZoneID |-> zoneID]])
        ELSE [Did(c, <<"GetRequest", "Signer", "Do">>) EXCEPT
                  !.pc = "http", !.request = request,
                  !.signer = [APIKey |-> cfAPIKey, ZoneID |-> zoneID]]

SignWithSecretData_RequestFirst(c, request) ==
    LET cfAPIKey == c.secretData.apiKey
        zoneID == c.secretData.zoneID
    IN  IF request = "err"
        THEN Returned([Did(c, <<"GetRequest">>) EXCEPT !.request = request], EmptyBundle,
                 Error("GetRequest failed", {}, "", "", 0))
        ELSE IF missingCredentials(cfAPIKey, zoneID)
        THEN Returned([Did(c, <<"GetRequest">>) EXCEPT !.request = request], EmptyBundle,
                 Error("missing Cloudflare API key or Zone ID in secret", {}, "", "", 0))
        ELSE IF request = "nodns"
        THEN Panicked([Did(c, <<"GetRequest", "Signer">>) EXCEPT
                           !.request = request,
                           !.signer = [APIKey |-> cfAPIKey, ZoneID |-> zoneID]])
        ELSE [Did(c, <<"GetRequest", "Signer", "Do">>) EXCEPT
                  !.pc = "http", !.request = request,
                  !.signer = [APIKey |-> cfAPIKey, ZoneID |-> zoneID]]

SignWithSecretData(c, request) ==
    LET cfAPIKey == c.secretData.apiKey
        zoneID == c.secretData.zoneID
    IN  IF missingCredentials(cfAPIKey, zoneID)
        THEN Returned(c, EmptyBundle,
                 Error("missing Cloudflare API key or Zone ID in secret", {}, "", "", 0))
        ELSE IF request = "err"
        THEN Returned([Did(c, <<"GetRequest">>) EXCEPT !.request = request], EmptyBundle,
                 Error("GetRequest failed", {}, "", "", 0))
        ELSE IF request = "nodns"
        THEN Panicked([Did(c, <<"GetRequest", "Signer">>) EXCEPT
                           !.request = request,
                           !.signer = [APIKey |-> cfAPIKey, ZoneID |-> zoneID]])
        ELSE [Did(c, <<"GetRequest", "Signer", "Do">>) EXCEPT
                  !.pc = "http", !.request = request,
                  !.signer = [APIKey |-> cfAPIKey, ZoneID |-> zoneID]]

\* Sign from the return of client.Do on: the signer's answer, then the parse
SignWithResponse_Retries(c, resp) ==
    LET s == CloudflareSignerSign(c.signer, resp)
        p == ParseSingleCertificateChainPEM(s.signed)
    IN  IF resp.failed /\ Len(c.did) < 7 THEN Did(c, <<"Do">>)
        ELSE IF s.err # nil THEN Returned(c, EmptyBundle, s.err)
        ELSE IF ~p.ok
        THEN Returned(Did(c, <<"Parse">>), EmptyBundle, Error(p.msg, {}, "", "", 0))
        ELSE Returned([Did(c, <<"Parse">>) EXCEPT !.signed = s.signed], p.bundle, nil)

SignWithResponse(c, resp) ==
    LET s == CloudflareSignerSign(c.signer, resp)
        p == ParseSingleCertificateChainPEM(s.signed)
    IN  IF s.err # nil THEN Returned(c, EmptyBundle, s.err)
        ELSE IF ~p.ok
        THEN Returned(Did(c, <<"Parse">>), EmptyBundle, Error(p.msg, {}, "", "", 0))
        ELSE Returned([Did(c, <<"Parse">>) EXCEPT !.signed = s.signed], p.bundle, nil)

\* getSecretData from checker.Check() on, and what Check and Sign do with
\* its result
AfterCheck_CheckSigns(c, ok, request) ==
    IF ~ok
    THEN Returned([Did(c, <<"Check">>) EXCEPT !.checked = "fail"], EmptyBundle,
             Propagate(c.op, Error("healthcheck failed", {"errHealthCheckerCheck"}, "", "", 0)))
    ELSE SignWithSecretData([Did(c, <<"Check">>) EXCEPT !.checked = "ok"], request)

AfterCheck_IgnoresFailure(c, ok, request) ==
    IF c.op = "Check"
    THEN Returned([Did(c, <<"Check">>) EXCEPT !.checked = IF ok THEN "ok" ELSE "fail"],
                  EmptyBundle, nil)
    ELSE SignWithSecretData(
             [Did(c, <<"Check">>) EXCEPT !.checked = IF ok THEN "ok" ELSE "fail"], request)

AfterCheck(c, ok, request) ==
    IF ~ok
    THEN Returned([Did(c, <<"Check">>) EXCEPT !.checked = "fail"], EmptyBundle,
             Propagate(c.op, Error("healthcheck failed", {"errHealthCheckerCheck"}, "", "", 0)))
    ELSE IF c.op = "Check"
    THEN Returned([Did(c, <<"Check">>) EXCEPT !.checked = "ok"], EmptyBundle, nil)
    ELSE SignWithSecretData([Did(c, <<"Check">>) EXCEPT !.checked = "ok"], request)

\* ---------------------------------------------------------------- actions
\* o.client.Get(ctx, ...) returns and the health checker is built.  With a
\* cancelled context the client may fail the read or still serve it.
ClientGet(w) ==
    /\ calls[w].pc = "get"
    /\ \E getFailed \in {FALSE, calls[w].cancelledAt # "none"}, built \in BOOLEAN :
         calls' = [calls EXCEPT ![w] =
             getSecretData(issuer, calls[w], secrets[calls[w].namespace], getFailed, built)]
    /\ UNCHANGED <<issuer, secrets, healthy, reachable>>

\* checker.Check() returns; Check returns, Sign goes on to send its request
CheckerCheck(w) ==
    /\ calls[w].pc = "check"
    /\ \E request \in RequestValues :
         calls' = [calls EXCEPT ![w] = AfterCheck(calls[w], healthy, request)]
    /\ UNCHANGED <<issuer, secrets, healthy, reachable>>

\* http.Client{Timeout: 10 * time.Second}; a Timeout of zero means no timeout
ClientTimeout == 10

\* what client.Do(req) can return: the answer of a backend that answers; of
\* one that does not, a transport failure once the client's timeout is over
DoOutcomes_NoTimeout(answers) == IF answers THEN Responses ELSE {}

DoOutcomes(answers) ==
    IF answers THEN Responses
    ELSE IF ClientTimeout > 0 THEN {TransportFailure}
    ELSE {}

\* client.Do(req) returns: the backend's answer, or a transport failure when
\* it is unreachable or does not answer within the client's timeout
ClientDo(w) ==
    /\ calls[w].pc = "http"
    /\ \E resp \in DoOutcomes(reachable) :
         calls' = [calls EXCEPT ![w] = SignWithResponse(calls[w], resp)]
    /\ UNCHANGED <<issuer, secrets, healthy, reachable>>

\* the driver cancels the context of a call that is in progress
CtxCancel(w) ==
    /\ calls[w].pc \in {"get", "check", "http"}
    /\ calls[w].cancelledAt = "none"
    /\ calls' = [calls EXCEPT ![w].cancelledAt = calls[w].pc]
    /\ UNCHANGED <<issuer, secrets, healthy, reachable>>

\* the driver has taken the result (or recovered the panic)
Return(w) ==
    /\ calls[w].pc \in {"done", "panic"}
    /\ calls' = [calls EXCEPT ![w] = IdleCall]
    /\ UNCHANGED <<issuer, secrets, healthy, reachable>>

\* the environment: the Secret is created, deleted or edited
SecretChange ==
    /\ \E ns \in Namespaces :
         \E v \in SecretValues \ {secrets[ns]} :
           secrets' = [secrets EXCEPT ![ns] = v]
    /\ UNCHANGED <<issuer, healthy, reachable, calls>>

\* the environment: the CA's health changes
HealthChange ==
    /\ healthy' = ~healthy
    /\ UNCHANGED <<issuer, secrets, reachable, calls>>

\* the environment: the signing backend goes away or comes back
BackendChange ==
    /\ reachable' = ~reachable
    /\ UNCHANGED <<issuer, secrets, healthy, calls>>

Next ==
    \/ \E w \in Workers : Invoke(w)
    \/ \E w \in Workers : ClientGet(w)
    \/ \E w \in Workers : CheckerCheck(w)
    \/ \E w \in Workers : ClientDo(w)
    \/ \E w \in Workers : CtxCancel(w)
    \/ \E w \in Workers : Return(w)
    \/ SecretChange
    \/ HealthChange
    \/ BackendChange

Spec == Init /\ [][Next]_vars

\* client.Do returns: with an answer, or when the client's timer fires.
\* The Issuer is one whose builders are set; the secret store is any, and
\* stays as it is while the calls run.
FairInit == Init /\ issuer.HealthCheckerBuilder = "set" /\ issuer.SignerBuilder = "set"

FairNext ==
    \/ \E w \in Workers : Invoke(w)
    \/ \E w \in Workers : ClientGet(w)
    \/ \E w \in Workers : CheckerCheck(w)
    \/ \E w \in Workers : ClientDo(w)
    \/ \E w \in Workers : CtxCancel(w)
    \/ \E w \in Workers : Return(w)
    \/ HealthChange
    \/ BackendChange

\* The driver's workers call concurrently, for different issuers and
\* requests, on the one Issuer that SetupWithManager bound Sign and Check to.
\* The Issuer has its builders set and each namespace has a Secret with
\* credentials; the CA's health and the backend's reachability change.
ConcurrentInit ==
    /\ Init
    /\ issuer.HealthCheckerBuilder = "set"
    /\ issuer.SignerBuilder = "set"
    /\ \A ns \in Namespaces :
         secrets[ns] \in {SecretData("k1", "z1"), SecretData("k2", "z2")}

ConcurrentNext ==
    \/ \E w \in Workers : InvokeConcurrent(w)
    \/ \E w \in Workers : ClientGet(w)
    \/ \E w \in Workers : CheckerCheck(w)
    \/ \E w \in Workers : ClientDo(w)
    \/ \E w \in Workers : Return(w)
    \/ HealthChange
    \/ BackendChange

ConcurrentSpec == ConcurrentInit /\ [][ConcurrentNext]_vars

FairSpec == FairInit /\ [][FairNext]_vars /\ \A w \in Workers : WF_vars(ClientDo(w))

TypeOK ==
    /\ healthy \in BOOLEAN
    /\ reachable \in BOOLEAN
    /\ \A w \in Workers :
         calls[w].pc \in {"idle", "get", "check", "http", "done", "panic"}

\* ----------------------------------------------------------------- claims
SignCalls == { w \in Workers : calls[w].op = "Sign" }
CheckCalls == { w \in Workers : calls[w].op = "Check" }
Effects(c) == Range(c.did)
CredentialsMissing(secret) == secret.apiKey = "" \/ secret.zoneID = ""

\* C1: a call with an issuer object that is neither a CFMTLSIssuer nor a
\* CFMTLSClusterIssuer has returned the Permanent-tagged "unexpected issuer
\* type" error (inside IssuerError for Sign) and has read no secret, built
\* and run no health checker, read no request and sent no signing call.
C1_UnexpectedIssuerType ==
    \A w \in Workers :
        calls[w].variant = "Other" =>
            /\ calls[w].pc = "done"
            /\ calls[w].err.permanent
            /\ calls[w].err.msg = "unexpected issuer type"
            /\ calls[w].err.issuerError = (calls[w].op = "Sign")
            /\ calls[w].did = <<>>
            /\ calls[w].bundle = EmptyBundle

C1_Witness ==
    \E w \in SignCalls :
        calls[w].variant = "Other" /\ calls[w].pc = "done" /\ calls[w].err.permanent

\* C2 as stated: every Sign call that fetched a secret whose API key or zone
\* id is absent or empty fails with the missing-credential error and sends
\* no signing call.
C2_MissingCredentialAlways ==
    \A w \in SignCalls :
        ( /\ calls[w].pc \in {"done", "panic"}
          /\ calls[w].secretData.present
          /\ CredentialsMissing(calls[w].secretData) ) =>
            /\ calls[w].pc = "done"
            /\ calls[w].err.msg = "missing Cloudflare API key or Zone ID in secret"
            /\ "Do" \notin Effects(calls[w])

\* C2 amended: a Sign call that fetched a secret whose API key or zone id is
\* absent or empty never extracts the template, builds a signer or sends a
\* signing call; it fails with the missing-credential error (outside the
\* IssuerError envelope) when the health gate passed, and with the gate's
\* own error when the health checker could not be built or its check failed.
C2_MissingCredentialAfterGate ==
    \A w \in SignCalls :
        ( /\ calls[w].secretData.present
          /\ CredentialsMissing(calls[w].secretData) ) =>
            /\ Effects(calls[w]) \cap {"GetRequest", "Signer", "Do", "Parse"} = {}
            /\ calls[w].pc # "http"
            /\ calls[w].checked = "ok" =>
                 /\ calls[w].pc = "done"
                 /\ calls[w].err.msg = "missing Cloudflare API key or Zone ID in secret"
                 /\ ~calls[w].err.issuerError
            /\ (calls[w].pc = "done" /\ calls[w].checked # "ok") =>
                 /\ calls[w].err.issuerError
                 /\ calls[w].err.wraps \in
                        {{"errHealthCheckerBuilder"}, {"errHealthCheckerCheck"}}

C2_Witness ==
    \E w \in SignCalls :
        /\ calls[w].pc = "done"
        /\ calls[w].secretData = SecretData("k1", "")
        /\ calls[w].checked = "ok"
        /\ calls[w].err.msg = "missing Cloudflare API key or Zone ID in secret"

\* C3: a call that runs checker.Check() while the check fails returns
\* an error of the errHealthCheckerCheck kind: Check as it is, Sign inside
\* IssuerError and without a signer or a signing call; and a Sign call that
\* returned a nil error passed the health check.
C3_HealthGate ==
    /\ [][ \A w \in Workers :
             ( /\ calls[w].pc = "check"
               /\ calls'[w].pc # "check"
               /\ ~healthy ) =>
                 /\ calls'[w].pc = "done"
                 /\ calls'[w].err # nil
                 /\ "errHealthCheckerCheck" \in calls'[w].err.wraps
                 /\ calls'[w].bundle = EmptyBundle
                 /\ calls'[w].op = "Sign" =>
                      /\ calls'[w].err.issuerError
                      /\ Effects(calls'[w]) \cap {"GetRequest", "Signer", "Do", "Parse"} = {}
         ]_vars
    /\ [][ \A w \in Workers :
             ( /\ calls[w].pc = "check"
               /\ calls'[w].pc = "done"
               /\ calls'[w].err = nil ) => healthy
         ]_vars
    /\ [](\A w \in SignCalls :
             (calls[w].pc = "http" \/ (calls[w].pc = "done" /\ calls[w].err = nil))
                 => calls[w].checked = "ok")

C3_Witness ==
    \E w \in SignCalls :
        /\ calls[w].pc = "done"
        /\ calls[w].checked = "fail"
        /\ ~healthy
        /\ calls[w].err.issuerError
        /\ "errHealthCheckerCheck" \in calls[w].err.wraps

\* C4: a Sign call that returned a nil error returned a non-empty bundle,
\* the one the parse of the signer's output as a single chain produced.
C4_NilErrorHasBundle ==
    \A w \in SignCalls :
        (calls[w].pc = "done" /\ calls[w].err = nil) =>
            /\ calls[w].bundle.ChainPEM # <<>>
            /\ calls[w].bundle.CAPEM # <<>>
            /\ "Parse" \in Effects(calls[w])
            /\ DecodeX509CertificateSetBytes(calls[w].signed).ok
            /\ ParseSingleCertificateChain(calls[w].signed).ok
            /\ calls[w].bundle = ParseSingleCertificateChain(calls[w].signed).bundle
            /\ Range(calls[w].bundle.ChainPEM) \subseteq Range(calls[w].signed)

C4_Witness ==
    \E w \in SignCalls :
        /\ calls[w].pc = "done"
        /\ calls[w].err = nil
        /\ calls[w].signed = <<"int", "leaf">>
        /\ calls[w].bundle = PEMBundle(<<"leaf", "int">>, <<"int">>)

\* C5 as stated: a Sign call whose signing call met a transport failure or
\* a non-success status returns an error of the errSignerSign kind.
C5_SignerSignKind ==
    \A w \in SignCalls :
        ( /\ calls[w].pc = "done"
          /\ "Do" \in Effects(calls[w])
          /\ \/ calls[w].err.msg = "failed to send request to Cloudflare"
             \/ calls[w].err.status # 0 ) =>
            "errSignerSign" \in calls[w].err.wraps

\* C6 as stated, in its weakest form: a Sign call whose context was
\* cancelled while the signing call was in flight does not return a nil
\* error.
C6_CancelledSignFails ==
    \A w \in SignCalls :
        (calls[w].pc = "done" /\ calls[w].cancelledAt = "http") => calls[w].err # nil

\* C7 as stated: no call of Check or Sign ends in a panic.
C7_NoPanic == \A w \in Workers : calls[w].pc # "panic"

\* C8: no step of a Check call changes the secret store or the Issuer, and a
\* Check call never reads the request, builds a signer, sends a signing call
\* or returns a bundle.
C8_CheckFrame ==
    [][ \A w \in Workers :
          (calls'[w] # calls[w] /\ (calls[w].op = "Check" \/ calls'[w].op = "Check")) =>
              /\ secrets' = secrets
              /\ issuer' = issuer
              /\ calls'[w].op = "Check" =>
                   /\ Effects(calls'[w]) \subseteq {"Get", "Build", "Check"}
                   /\ calls'[w].request = "none"
                   /\ calls'[w].signer = NoSigner
                   /\ calls'[w].signed = <<>>
                   /\ calls'[w].bundle = EmptyBundle
                   /\ calls'[w].pc # "http"
      ]_vars

C8_Witness ==
    \E w \in CheckCalls :
        /\ calls[w].pc = "done"
        /\ calls[w].err = nil
        /\ calls[w].did = <<"Get", "Build", "Check">>
        /\ calls[w].secretData = SecretData("k1", "z1")

\* C9: the error of a failed Sign call is inside the IssuerError envelope
\* exactly when the call failed in getIssuerDetails or in getSecretData,
\* that is before getSecretData returned the secret data.
C9_IssuerErrorEnvelope ==
    \A w \in SignCalls :
        (calls[w].pc = "done" /\ calls[w].err # nil) =>
            /\ calls[w].err.issuerError = (calls[w].checked # "ok")
            /\ calls[w].err.issuerError =
                   ( \/ calls[w].err.msg = "unexpected issuer type"
                     \/ calls[w].err.wraps # {} )
            /\ calls[w].err.msg \in
                   { "missing Cloudflare API key or Zone ID in secret",
                     "GetRequest failed",
                     "failed to send request to Cloudflare",
                     "Cloudflare API responded with status",
                     "failed to parse Cloudflare response",
                     "invalid certificate response from Cloudflare API",
                     "error parsing TLS certificate",
                     "error decoding certificate PEM block",
                     "certificate chain is malformed or broken" }
                 => ~calls[w].err.issuerError

C9_Witness ==
    \E w \in SignCalls :
        /\ calls[w].pc = "done"
        /\ calls[w].err.issuerError
        /\ calls[w].err.wraps = {"errGetAuthSecret"}

\* C10: getSecretData classifies by the failed step.  A lookup of an absent
\* Secret gives errGetAuthSecret naming the namespace and name, with no
\* health checker built; a call that leaves the lookup with an error has
\* errGetAuthSecret and built nothing, or errHealthCheckerBuilder and ran no
\* check; a failed check gives errHealthCheckerCheck; and the secret data is
\* handed on only after the lookup, the construction and the check succeeded.
C10_SecretDataClassification ==
    /\ [][ \A w \in Workers :
             (calls[w].pc = "get" /\ calls'[w].pc # "get") =>
                 LET c == calls'[w]
                     secret == secrets[calls[w].namespace]
                 IN  /\ ~secret.present =>
                          /\ c.pc = "done"
                          /\ c.err.wraps = {"errGetAuthSecret"}
                          /\ c.err.ns = calls[w].namespace
                          /\ c.err.name = AuthSecretName
                          /\ c.did = <<"Get">>
                     /\ c.pc = "done" =>
                          \/ /\ c.err.wraps = {"errGetAuthSecret"}
                             /\ c.did = <<"Get">>
                          \/ /\ c.err.wraps = {"errHealthCheckerBuilder"}
                             /\ c.did = <<"Get", "Build">>
                             /\ secret.present
                     /\ c.pc = "check" =>
                          /\ secret.present
                          /\ c.secretData = secret
                          /\ c.did = <<"Get", "Build">>
                     /\ c.pc \in {"done", "check", "panic"}
         ]_vars
    /\ [][ \A w \in Workers :
             (calls[w].pc = "check" /\ calls'[w].pc # "check") =>
                 LET c == calls'[w]
                 IN  /\ ~healthy => /\ c.pc = "done"
                                    /\ c.err.wraps = {"errHealthCheckerCheck"}
                     /\ healthy => /\ c.err.wraps = {}
                                   /\ c.checked = "ok"
                                   /\ c.secretData = calls[w].secretData
         ]_vars
    /\ [](\A w \in Workers :
             ( \/ calls[w].signer # NoSigner
               \/ calls[w].request # "none"
               \/ (calls[w].pc = "done" /\ calls[w].err.wraps = {}
                     /\ calls[w].variant # "Other") ) =>
                 /\ calls[w].checked = "ok"
                 /\ SubSeq(calls[w].did, 1, 3) = <<"Get", "Build", "Check">>
                 /\ calls[w].secretData.present)

C10_Witness ==
    \E w \in Workers :
        /\ calls[w].pc = "done"
        /\ calls[w].err.wraps = {"errHealthCheckerBuilder"}
        /\ calls[w].did = <<"Get", "Build">>

\* the namespace the claim expects a call to look its secret up in
ExpectedNamespace(variant) ==
    IF variant = "CFMTLSClusterIssuer"
    THEN issuer.ClusterResourceNamespace
    ELSE IssuerObject(variant).namespace

C12_UnreachableIsSignerSign ==
    [][ \A w \in Workers :
          (calls[w].pc = "http" /\ ~reachable /\ calls'[w].pc # "http") =>
              /\ calls'[w].pc = "done"
              /\ calls'[w].err # nil
              /\ calls'[w].bundle = EmptyBundle
              /\ "errSignerSign" \in calls'[w].err.wraps
      ]_vars

\* how often a call made the collaborator call `what`
Count(c, what) == Cardinality({ i \in 1..Len(c.did) : c.did[i] = what })

\* C13: a call starts with nothing carried over from an earlier call; a Sign
\* call whose signing call is sent or has returned has read the secret once
\* and sent one signing call, and the return of the signing call ends the
\* call without a second one; a Sign call returns a bundle only after its own
\* signing call.
C13_OneCallPerSign ==
    /\ [](\A w \in Workers :
             /\ Count(calls[w], "Get") <= 1
             /\ Count(calls[w], "Do") <= 1
             /\ calls[w].pc \in {"check", "http"} => Count(calls[w], "Get") = 1
             /\ calls[w].pc = "http" => Count(calls[w], "Do") = 1
             /\ (calls[w].pc = "done" /\ calls[w].op = "Sign" /\ calls[w].err = nil) =>
                    /\ Count(calls[w], "Get") = 1
                    /\ Count(calls[w], "Do") = 1)
    /\ [][ \A w \in Workers :
             /\ (calls[w].pc = "idle" /\ calls'[w].pc # "idle") =>
                    /\ calls'[w].did = <<>>
                    /\ calls'[w].secretData = NoSecret
                    /\ calls'[w].signer = NoSigner
                    /\ calls'[w].signed = <<>>
                    /\ calls'[w].bundle = EmptyBundle
             /\ (calls[w].pc = "http" /\ calls'[w].did # calls[w].did) =>
                    /\ calls'[w].pc = "done"
                    /\ Count(calls'[w], "Do") = 1
             /\ (calls[w].pc = "http" /\ calls'[w] # calls[w]
                   /\ calls'[w].cancelledAt = calls[w].cancelledAt) =>
                    calls'[w].pc = "done"
         ]_vars

C13_Witness ==
    \E w \in SignCalls :
        /\ calls[w].pc = "done"
        /\ calls[w].err = nil
        /\ Count(calls[w], "Get") = 1
        /\ Count(calls[w], "Do") = 1
        /\ \E v \in Workers \ {w} : calls[v] = IdleCall

\* C14: a Sign call whose signing call is in flight returns, also when the
\* backend never answers.
C14_SignTerminates ==
    \A w \in Workers : (calls[w].pc = "http") ~> (calls[w].pc = "done")

C14_Witness ==
    \E w \in SignCalls :
        /\ calls[w].pc = "done"
        /\ ~reachable
        /\ calls[w].err.msg = "failed to send request to Cloudflare"
        /\ calls[w].checked = "ok"

\* the answers with a success status and a JSON body whose "certificate"
\* field is missing or is not a string
InvalidSignerResponses ==
    { r \in Responses : r.status = StatusOK /\ r.shape \in {"nofield", "nonstring"} }

\* C15: whenever the signing call of a Sign call is in flight, each answer
\* with a success status and no string "certificate" makes the call return
\* the "invalid certificate response" error with no bundle and without a
\* parse; and a call that returned that error returned no bundle, ran no
\* parse and is outside the IssuerError envelope.
C15_InvalidSignerResponse ==
    \A w \in Workers :
        /\ calls[w].pc = "http" =>
             \A r \in InvalidSignerResponses :
                 LET c == SignWithResponse(calls[w], r)
                 IN  /\ c.pc = "done"
                     /\ c.err.msg = "invalid certificate response from Cloudflare API"
                     /\ c.bundle = EmptyBundle
                     /\ c.signed = <<>>
                     /\ "Parse" \notin Effects(c)
        /\ calls[w].err.msg = "invalid certificate response from Cloudflare API" =>
             /\ calls[w].pc = "done"
             /\ calls[w].op = "Sign"
             /\ calls[w].bundle = EmptyBundle
             /\ "Do" \in Effects(calls[w])
             /\ "Parse" \notin Effects(calls[w])
             /\ ~calls[w].err.issuerError
             /\ calls[w].err.wraps = {}

C15_Witness ==
    \E w \in SignCalls :
        /\ calls[w].pc = "done"
        /\ calls[w].err.msg = "invalid certificate response from Cloudflare API"
        /\ calls[w].did = <<"Get", "Build", "Check", "GetRequest", "Signer", "Do">>

\* the collaborator calls of a Sign call, in the order the claim gives
StepOrder == <<"Get", "Build", "Check", "GetRequest", "Signer", "Do", "Parse">>

IsPrefix(s, t) == Len(s) <= Len(t) /\ SubSeq(t, 1, Len(s)) = s

\* C16: the calls a Check or Sign call has made are a prefix of secret read,
\* health-checker construction, Check(), template extraction, signer
\* construction, signing call, parse, after a successful issuer resolution;
\* each was made only after the ones before it succeeded: the checker is
\* built from a Secret that was read, the template is extracted only after a
\* passed check and with both credential fields non-empty, and a signing
\* call is sent only with all of that and an extracted template.
C16_StepOrder ==
    \A w \in Workers :
        LET c == calls[w] IN
        /\ IsPrefix(c.did, StepOrder)
        /\ c.did # <<>> => c.variant \in {"CFMTLSIssuer", "CFMTLSClusterIssuer"}
        /\ "Build" \in Effects(c) => c.secretData.present
        /\ (c.checked # "none") = ("Check" \in Effects(c))
        /\ "GetRequest" \in Effects(c) =>
             /\ c.op = "Sign"
             /\ c.checked = "ok"
             /\ ~CredentialsMissing(c.secretData)
             /\ c.request # "none"
        /\ "Signer" \in Effects(c) => c.request \in {"dns", "nodns"}
        /\ "Do" \in Effects(c) =>
             /\ c.secretData.present
             /\ c.checked = "ok"
             /\ ~CredentialsMissing(c.secretData)
             /\ c.request = "dns"
             /\ c.signer # NoSigner
        /\ (c.pc = "done" /\ c.err # nil /\ c.checked # "ok") =>
             Effects(c) \cap {"GetRequest", "Signer", "Do", "Parse"} = {}

C16_Witness ==
    \E w \in SignCalls :
        /\ calls[w].pc = "done"
        /\ calls[w].did = StepOrder
        /\ calls[w].err = nil

\* C17: a call reads the secret once, at its lookup; what it read stays the
\* call's secret data whatever happens to the Secret in the store
\* afterwards; and the signer's API key and zone id are both those of that
\* data, the data the health checker was built from and checked with.
C17_OneSnapshot ==
    /\ [](\A w \in Workers :
             /\ Count(calls[w], "Get") <= 1
             /\ calls[w].signer # NoSigner =>
                  /\ calls[w].checked = "ok"
                  /\ calls[w].signer.APIKey = calls[w].secretData.apiKey
                  /\ calls[w].signer.ZoneID = calls[w].secretData.zoneID)
    /\ [][ \A w \in Workers :
             /\ (calls[w].pc = "get" /\ calls'[w].secretData.present) =>
                  calls'[w].secretData = secrets[calls[w].namespace]
             /\ (calls[w].pc \in {"check", "http"} /\ calls'[w].pc # "idle") =>
                  /\ calls'[w].secretData = calls[w].secretData
                  /\ Count(calls'[w], "Get") = 1
             /\ calls[w].pc = "http" => calls'[w].signer = calls[w].signer
         ]_vars

C17_Witness ==
    \E w \in SignCalls :
        /\ calls[w].pc = "done"
        /\ calls[w].err = nil
        /\ calls[w].secretData = SecretData("k1", "z1")
        /\ calls[w].signer = [APIKey |-> "k1", ZoneID |-> "z1"]
        /\ secrets[calls[w].namespace] = SecretData("k2", "z2")

\* C18 as stated, in a consequence: Sign gets its signer from the Issuer's
\* injected SignerBuilder, so a signing call is sent only by a call on an
\* Issuer that has a SignerBuilder, and a Sign call that failed before the
\* signing call for want of a signer has an error of the errSignerBuilder kind.
C18_InjectedSignerBuilder ==
    \A w \in SignCalls :
        /\ "Do" \in Effects(calls[w]) => issuer.SignerBuilder = "set"
        /\ ( /\ calls[w].pc = "done"
             /\ issuer.SignerBuilder = "unset"
             /\ calls[w].request = "dns" ) =>
               "errSignerBuilder" \in calls[w].err.wraps

\* C19: with calls running concurrently, a step of one call changes nothing
\* but that call: not another call, not the Issuer, the secret store, the
\* CA's health or the backend.  Each call works on what it read itself: the
\* secret data it holds is the Secret of its own namespace as it was at its
\* own lookup, its signer has the credentials of that data, and what it
\* returns is the outcome of its own health check and of the parse of its
\* own signer's output.
C19_NoInterference ==
    /\ [][ \A w \in Workers :
             calls'[w] # calls[w] =>
                 /\ \A v \in Workers \ {w} : calls'[v] = calls[v]
                 /\ issuer' = issuer
                 /\ secrets' = secrets
                 /\ healthy' = healthy
                 /\ reachable' = reachable
                 /\ (calls[w].pc = "get" /\ calls'[w].secretData.present) =>
                        calls'[w].secretData = secrets[ExpectedNamespace(calls[w].variant)]
                 /\ calls[w].pc = "check" =>
                        /\ calls'[w].secretData = calls[w].secretData
                        /\ calls'[w].checked = IF healthy THEN "ok" ELSE "fail"
                 /\ calls[w].pc = "http" =>
                        /\ calls'[w].signer = calls[w].signer
                        /\ ~reachable =>
                             calls'[w].err.msg = "failed to send request to Cloudflare"
         ]_vars
    /\ [](\A w \in Workers :
             /\ calls[w].signer # NoSigner =>
                  /\ calls[w].signer.APIKey = calls[w].secretData.apiKey
                  /\ calls[w].signer.ZoneID = calls[w].secretData.zoneID
             /\ (calls[w].pc = "done" /\ calls[w].op = "Check") =>
                  (calls[w].err = nil) = (calls[w].checked = "ok")
             /\ (calls[w].pc = "done" /\ calls[w].op = "Sign" /\ calls[w].err = nil) =>
                  /\ calls[w].checked = "ok"
                  /\ calls[w].bundle = ParseSingleCertificateChainPEM(calls[w].signed).bundle)

C19_Witness ==
    \E w \in SignCalls :
        \E v \in Workers \ {w} :
            /\ calls[w].pc = "http"
            /\ calls[v].pc = "http"
            /\ calls[w].namespace # calls[v].namespace
            /\ calls[w].signer = [APIKey |-> "k1", ZoneID |-> "z1"]
            /\ calls[v].signer = [APIKey |-> "k2", ZoneID |-> "z2"]

\* C20: the error a Check or Sign call returned carries the Permanent marker
\* exactly when the issuer object's variant is unrecognised; the errors of
\* the secret lookup, the health checker, the credential fields, the
\* template extraction, the signing call and the parse never carry it.
C20_PermanentOnlyUnexpectedType ==
    \A w \in Workers :
        /\ (calls[w].pc = "done" /\ calls[w].err # nil) =>
             /\ calls[w].err.permanent = (calls[w].variant = "Other")
             /\ calls[w].err.permanent = (calls[w].err.msg = "unexpected issuer type")
             /\ calls[w].did # <<>> => ~calls[w].err.permanent
        /\ calls[w].err = nil => ~calls[w].err.permanent

C20_Witness ==
    \E w \in CheckCalls :
        /\ calls[w].pc = "done"
        /\ calls[w].variant = "Other"
        /\ calls[w].err.permanent
        /\ ~calls[w].err.issuerError

====
